---------------------------- MODULE Spec2Model ----------------------------
(***************************************************************************)
(* Model of the sahyogi prompt pipelines:                                  *)
(*   src/generate_analogy.py       (localized analogy use case)            *)
(*   src/personalized_exercise.py  (personalized exercise use case)        *)
(*                                                                         *)
(* Python strings that the code inspects (lower(), strip(), substring      *)
(* tests) are sequences of one-character strings.  Model responses of the  *)
(* exercise use case are sequences of lexical tokens (see the exercise     *)
(* parser).    Opaque messages (exception texts) are TLA+ strings.          *)
(***************************************************************************)
EXTENDS Integers, Sequences, FiniteSets, TLC

VARIABLES
    \* ---- one request run (both use cases) ----
    useCase,              \* "analogy" | "exercise" | "none"
    data,                 \* the inbound payload
    appContext,           \* whether a Flask application context is active
    pc,                   \* position of the run
    built,                \* outcome of the request-construction function
    calls,                \* log of model-collaborator calls: <<[kind, ok]>>
    detected_language,
    translated_question,
    translate_in_ok,      \* TRUE once the translate-in call has returned text
    analogy_response,
    final_response,
    prompt,               \* the generation prompt handed to the model
    response_text,        \* the model's text of the exercise call
    exercises,
    result,               \* outcome of the orchestrator call
    \* ---- exercise parser applied to a drawn input ----
    pText, pReq, pShape, pOut,
    \* ---- cultural classifier applied to a drawn input ----
    cultural_context, region, cultural_key

runVars == <<useCase, data, appContext, pc, built, calls, detected_language,
             translated_question, translate_in_ok, analogy_response,
             final_response, prompt, response_text, exercises, result>>
parseVars == <<pText, pReq, pShape, pOut>>
classVars == <<cultural_context, region, cultural_key>>
vars == <<runVars, parseVars, classVars>>

(***************************************************************************)
(* Python string primitives                                                *)
(***************************************************************************)
UpperCs == <<"A","B","C","D","E","F","G","H","I","J","K","L","M",
             "N","O","P","Q","R","S","T","U","V","W","X","Y","Z">>
LowerCs == <<"a","b","c","d","e","f","g","h","i","j","k","l","m",
             "n","o","p","q","r","s","t","u","v","w","x","y","z">>

LowerChar(c) ==
    IF \E i \in 1..Len(UpperCs) : UpperCs[i] = c
    THEN LowerCs[CHOOSE i \in 1..Len(UpperCs) : UpperCs[i] = c]
    ELSE c

\* str.lower()
Lower(s) == [i \in 1..Len(s) |-> LowerChar(s[i])]

\* `sub in s`
Contains(s, sub) ==
    \E i \in 1..(Len(s) - Len(sub) + 1) : SubSeq(s, i, i + Len(sub) - 1) = sub

Whitespace == {" ", "\n", "\t"}

\* str.strip(): drop leading and trailing whitespace
Strip(s) ==
    LET keep == {i \in 1..Len(s) : s[i] \notin Whitespace}
    IN  IF keep = {} THEN <<>>
        ELSE LET lo == CHOOSE i \in keep : \A j \in keep : i <= j
                 hi == CHOOSE i \in keep : \A j \in keep : j <= i
             IN  SubSeq(s, lo, hi)

\* dict.get(key, default)
Get(d, k, default) == IF k \in DOMAIN d THEN d[k] ELSE default

sEnglish     == <<"E","n","g","l","i","s","h">>
sEnglishLow  == <<"e","n","g","l","i","s","h">>
sEnglishPad  == <<" ","e","n","g","l","i","s","h","\n">>
sENGLISH     == <<"E","N","G","L","I","S","H">>
sHindi       == <<"H","i","n","d","i">>
sHindiPad    == <<"H","i","n","d","i","\n">>
sTamil       == <<"T","a","m","i","l">>

(***************************************************************************)
(* Cultural-context classifier                                             *)
(***************************************************************************)
mTribal  == <<"t","r","i","b","a","l">>
mAdivasi == <<"a","d","i","v","a","s","i">>
mUrban   == <<"u","r","b","a","n">>
mCity    == <<"c","i","t","y">>

\* LocalAnalogyService._get_cultural_key: region_lower is computed and not read.
get_cultural_key(cc, rg) ==
    LET cultural_lower == Lower(cc)
        region_lower   == Lower(rg)
    IN  IF Contains(cultural_lower, mTribal) \/ Contains(cultural_lower, mAdivasi)
        THEN "tribal_areas"
        ELSE IF Contains(cultural_lower, mUrban) \/ Contains(cultural_lower, mCity)
        THEN "urban_india"
        ELSE "rural_india"

sRural       == <<"r","u","r","a","l">>
sUrbanCap    == <<"U","r","b","a","n">>
sTribalCap   == <<"T","r","i","b","a","l">>
sTRIBAL      == <<"T","R","I","B","A","L">>
sAdivasiCap  == <<"A","d","i","v","a","s","i">>
sSemiUrban   == <<"s","e","m","i","-","u","r","b","a","n">>
sCityCap     == <<"C","i","t","y">>
sTribalBelt  == <<"T","r","i","b","a","l"," ","B","e","l","t">>
sRuralIndia  == <<"R","u","r","a","l"," ","I","n","d","i","a">>
sNorthIndia  == <<"n","o","r","t","h"," ","i","n","d","i","a">>
sMumbaiCity  == <<"M","u","m","b","a","i"," ","C","I","T","Y">>
sAdivasiHill == <<"a","d","i","v","a","s","i"," ","h","i","l","l">>
sUrbanDelhi  == <<"U","R","B","A","N"," ","d","e","l","h","i">>

CulturalInputs ==
    {<<>>, sRural, mUrban, sUrbanCap, sTribalCap, sTRIBAL, sAdivasiCap,
     sSemiUrban, sCityCap, mTribal \o <<" ">> \o mUrban}
RegionInputs ==
    {<<>>, sRuralIndia, sNorthIndia, sTribalBelt, sMumbaiCity, sAdivasiHill,
     sUrbanDelhi, mUrban \o <<" ">> \o mTribal}

(***************************************************************************)
(* Exercise parser.  A model response is a sequence of lexical tokens:     *)
(* the punctuation of JSON, two object keys (each standing for the quoted  *)
(* key and its colon), scalars, a prose word, blank and newline.  Only the *)
(* tokens "{" and "}" contain a brace.                                     *)
(***************************************************************************)
kExercises == "\"exercises\":"
kOther     == "\"other\":"
KeyTokens  == {kExercises, kOther}
Scalars    == {"1", "2"}
KeyName(tok) == IF tok = kExercises THEN "exercises" ELSE "other"

\* values produced by json.loads, and Python lists
JScalar(tok) == [t |-> "scalar", v |-> tok]
JList(items) == [t |-> "list",   v |-> items]
JObject(f)   == [t |-> "object", v |-> f]
\* an exception that leaves the function, in place of a returned value
PyRaise(exc) == [t |-> "raise",  v |-> exc]

\* The scanner of json.loads nests one call per "[" or "{" it descends into and
\* raises RecursionError, which is no JSONDecodeError, beyond the interpreter's
\* recursion limit (sys.getrecursionlimit(), 1000 by default).  The limit is
\* scaled down here: it stays above the nesting of every ordinary text drawn
\* below, and DeepText exceeds it.
RecursionLimit == 8

JFail == [ok |-> FALSE, err |-> "JSONDecodeError", val |-> <<>>, next |-> 0]
JTooDeep == [ok |-> FALSE, err |-> "RecursionError", val |-> <<>>, next |-> 0]
JOk(v, n) == [ok |-> TRUE, err |-> "", val |-> v, next |-> n]

RECURSIVE SkipWs(_, _)
SkipWs(s, i) ==
    IF i <= Len(s) /\ s[i] \in Whitespace THEN SkipWs(s, i + 1) ELSE i

RECURSIVE ParseValue(_, _, _), ParseItems(_, _, _, _), ParseMembers(_, _, _, _)
\* one JSON value starting at position i (after optional whitespace), at
\* nesting depth `depth`; the first error met, left to right, is the result
ParseValue(s, i, depth) ==
    LET j == SkipWs(s, i)
    IN  IF j > Len(s) THEN JFail
        ELSE IF s[j] \in Scalars THEN JOk(JScalar(s[j]), j + 1)
        ELSE IF s[j] = "[" THEN
            LET k == SkipWs(s, j + 1)
            IN  IF depth >= RecursionLimit THEN JTooDeep
                ELSE IF k <= Len(s) /\ s[k] = "]" THEN JOk(JList(<<>>), k + 1)
                ELSE ParseItems(s, j + 1, <<>>, depth + 1)
        ELSE IF s[j] = "{" THEN
            LET k == SkipWs(s, j + 1)
            IN  IF depth >= RecursionLimit THEN JTooDeep
                ELSE IF k <= Len(s) /\ s[k] = "}" THEN JOk(JObject(<<>>), k + 1)
                ELSE ParseMembers(s, j + 1, <<>>, depth + 1)
        ELSE JFail

\* the items of a list, after its "[": value ("," value)* "]"
ParseItems(s, i, acc, depth) ==
    LET r == ParseValue(s, i, depth)
    IN  IF ~r.ok THEN r
        ELSE LET k == SkipWs(s, r.next)
             IN  IF k > Len(s) THEN JFail
                 ELSE IF s[k] = "," THEN ParseItems(s, k + 1, Append(acc, r.val), depth)
                 ELSE IF s[k] = "]" THEN JOk(JList(Append(acc, r.val)), k + 1)
                 ELSE JFail

\* the members of an object, after its "{": key value ("," key value)* "}";
\* a repeated key keeps its last value
ParseMembers(s, i, acc, depth) ==
    LET j == SkipWs(s, i)
    IN  IF j > Len(s) \/ s[j] \notin KeyTokens THEN JFail
        ELSE LET r == ParseValue(s, j + 1, depth)
             IN  IF ~r.ok THEN r
                 ELSE LET k   == SkipWs(s, r.next)
                          obj == (KeyName(s[j]) :> r.val) @@ acc
                      IN  IF k > Len(s) THEN JFail
                          ELSE IF s[k] = "," THEN ParseMembers(s, k + 1, obj, depth)
                          ELSE IF s[k] = "}" THEN JOk(JObject(obj), k + 1)
                          ELSE JFail

\* json.loads: one value spanning the whole string, else JSONDecodeError; or
\* RecursionError when the value nests deeper than the recursion limit
json_loads(s) ==
    LET r == ParseValue(s, 1, 0)
    IN  IF r.ok /\ SkipWs(s, r.next) > Len(s)
        THEN [ok |-> TRUE, err |-> "", val |-> r.val]
        ELSE [ok |-> FALSE, val |-> <<>>,
              err |-> IF r.ok THEN "JSONDecodeError" ELSE r.err]

\* str.find / str.rfind of one token (0-based, -1 when absent)
Find(s, c) ==
    IF \E i \in 1..Len(s) : s[i] = c
    THEN (CHOOSE i \in 1..Len(s) : s[i] = c /\ \A j \in 1..(i - 1) : s[j] # c) - 1
    ELSE -1
RFind(s, c) ==
    IF \E i \in 1..Len(s) : s[i] = c
    THEN (CHOOSE i \in 1..Len(s) : s[i] = c /\ \A j \in (i + 1)..Len(s) : s[j] # c) - 1
    ELSE -1

\* s[a:b] for 0 <= a, 0 <= b
Slice(s, a, b) == SubSeq(s, a + 1, b)

\* str.split('\n')
RECURSIVE SplitLines(_)
SplitLines(s) ==
    LET i == Find(s, "\n")
    IN  IF i = -1 THEN <<s>>
        ELSE <<Slice(s, 0, i)>> \o SplitLines(Slice(s, i + 1, Len(s)))

\* mutant of FallbackRecord: ids counted from 0
FallbackRecord_ZeroBasedId(line, exercise_count, req) ==
    [id                    |-> exercise_count,
     type                  |-> IF req.exercise_types # <<>>
                               THEN req.exercise_types[1] ELSE "short_answer",
     question              |-> line,
     correct_answer        |-> "Answer will be provided by teacher",
     explanation           |-> "Detailed explanation will be provided",
     difficulty            |-> req.difficulty_level,
     learning_objective    |-> <<"Practice ", req.topic, " concepts">>,
     personalization_notes |-> <<"Adapted for ", req.student_profile.learning_style,
                                 " learning style">>]

\* the dict literal of _create_fallback_exercises
FallbackRecord(line, exercise_count, req) ==
    [id                    |-> exercise_count + 1,
     type                  |-> IF req.exercise_types # <<>>
                               THEN req.exercise_types[1] ELSE "short_answer",
     question              |-> line,
     correct_answer        |-> "Answer will be provided by teacher",
     explanation           |-> "Detailed explanation will be provided",
     difficulty            |-> req.difficulty_level,
     learning_objective    |-> <<"Practice ", req.topic, " concepts">>,
     personalization_notes |-> <<"Adapted for ", req.student_profile.learning_style,
                                 " learning style">>]

\* the for loop of _create_fallback_exercises over lines[k..]
RECURSIVE FallbackLoop(_, _, _, _, _)
FallbackLoop(lines, k, emitted, exercise_count, req) ==
    IF k > Len(lines) THEN emitted
    ELSE LET line == Strip(lines[k])
         IN  IF line # <<>> /\ exercise_count < req.exercise_count
             THEN FallbackLoop(lines, k + 1,
                               Append(emitted, FallbackRecord(line, exercise_count, req)),
                               exercise_count + 1, req)
             ELSE FallbackLoop(lines, k + 1, emitted, exercise_count, req)

\* PersonalizedExerciseService._create_fallback_exercises
create_fallback_exercises(text, req) ==
    JList(FallbackLoop(SplitLines(Strip(text)), 1, <<>>, 0, req))

\* mutant of parse_exercises_response: the slice starts at the last "{"
parse_exercises_response_LastOpen(text, req) ==
    LET start_idx == RFind(text, "{")
        end_idx   == RFind(text, "}") + 1
    IN  IF start_idx # -1 /\ end_idx # 0
        THEN LET json_str    == Slice(text, start_idx, end_idx)
                 parsed_data == json_loads(json_str)
             IN  IF parsed_data.ok
                 THEN Get(parsed_data.val.v, "exercises", JList(<<>>))
                 ELSE IF parsed_data.err = "JSONDecodeError"
                 THEN create_fallback_exercises(text, req)
                 ELSE PyRaise(parsed_data.err)
        ELSE create_fallback_exercises(text, req)

\* PersonalizedExerciseService._parse_exercises_response
parse_exercises_response(text, req) ==
    LET start_idx == Find(text, "{")
        end_idx   == RFind(text, "}") + 1
    IN  IF start_idx # -1 /\ end_idx # 0
        THEN LET json_str    == Slice(text, start_idx, end_idx)
                 parsed_data == json_loads(json_str)
             IN  IF parsed_data.ok
                 THEN Get(parsed_data.val.v, "exercises", JList(<<>>))
                 ELSE IF parsed_data.err = "JSONDecodeError"
                 THEN create_fallback_exercises(text, req)
                 ELSE PyRaise(parsed_data.err)
        ELSE create_fallback_exercises(text, req)

(***************************************************************************)
(* Payloads, outcomes and request construction                             *)
(***************************************************************************)
\* An inbound payload: None, a mapping, or an object that is no mapping (the
\* entry point of personalized_exercise.py passes a dataclass instance).
NoneData      == [kind |-> "none",   fields |-> <<>>]
DictData(f)   == [kind |-> "dict",   fields |-> f]
ObjectData    == [kind |-> "object", fields |-> <<>>]

\* `not data`
Falsy(d) == d.kind = "none" \/ (d.kind = "dict" /\ DOMAIN d.fields = {})

\* The outcome of a call: a returned value of some class, or a raised exception.
NoOutcome == [kind |-> "none", class |-> "none", value |-> <<>>, status |-> 0]
Returned(cls, v) == [kind |-> "returned", class |-> cls, value |-> v, status |-> 0]
ReturnedTuple(v, code) == [kind |-> "returned", class |-> "tuple", value |-> v, status |-> code]
Raised(exc) == [kind |-> "raised", class |-> exc, value |-> <<>>, status |-> 0]

\* datetime.now().isoformat()
NowIso == "isoformat(now)"

\* ---- analogy use case ----
StudentContext(context_data) ==
    [student_id        |-> Get(context_data, "student_id", <<>>),
     name              |-> Get(context_data, "name", <<>>),
     grade             |-> Get(context_data, "grade", 1),
     region            |-> Get(context_data, "region", sRuralIndia),
     local_language    |-> Get(context_data, "local_language", sHindi),
     cultural_context  |-> Get(context_data, "cultural_context", sRural),
     familiar_concepts |-> Get(context_data, "familiar_concepts", <<>>)]

\* generate_local_analogy
generate_local_analogy(d) ==
    IF Falsy(d) \/ "student_context" \notin DOMAIN d.fields
                \/ "question" \notin DOMAIN d.fields
    THEN Returned("dict", [success |-> FALSE,
                           error   |-> "Student context and question are required"])
    ELSE Returned("AnalogyRequest",
            [student_context    |-> StudentContext(d.fields["student_context"]),
             question           |-> Get(d.fields, "question", <<>>),
             subject            |-> Get(d.fields, "subject", "General"),
             topic              |-> Get(d.fields, "topic", "Basic Concepts"),
             complexity_level   |-> Get(d.fields, "complexity_level", "simple"),
             preferred_language |-> Get(d.fields, "preferred_language", sEnglish)])

\* ---- exercise use case ----
StudentProfile(profile_data) ==
    [student_id          |-> Get(profile_data, "student_id", <<>>),
     name                |-> Get(profile_data, "name", <<>>),
     grade               |-> Get(profile_data, "grade", 1),
     learning_level      |-> Get(profile_data, "learning_level", "beginner"),
     learning_style      |-> Get(profile_data, "learning_style", "visual"),
     weaknesses          |-> Get(profile_data, "weaknesses", <<>>),
     strengths           |-> Get(profile_data, "strengths", <<>>),
     language_preference |-> Get(profile_data, "language_preference", sEnglish)]

DefaultExerciseCount == 5

ExerciseRequest(profile, fields) ==
    [student_profile  |-> profile,
     subject          |-> Get(fields, "subject", "Mathematics"),
     topic            |-> Get(fields, "topic", "Basic Operations"),
     difficulty_level |-> Get(fields, "difficulty_level", "beginner"),
     exercise_count   |-> Get(fields, "exercise_count", DefaultExerciseCount),
     exercise_types   |-> Get(fields, "exercise_types", <<"multiple_choice">>)]

\* flask.jsonify((body), code): needs an active application context, and raises
\* RuntimeError without one.
jsonify(body, code, ctx) ==
    IF ctx THEN ReturnedTuple(body, code) ELSE Raised("RuntimeError")

\* generate_personalized_exercises: the whole body runs in a try whose handler
\* calls jsonify again, so an exception of jsonify leaves the function.
generate_personalized_exercises(d, ctx) ==
    IF d.kind = "object"
    THEN \* `'student_profile' not in data` raises TypeError; handler at line 241
         jsonify([success |-> FALSE, error |-> "TypeError"], 500, ctx)
    ELSE IF Falsy(d) \/ "student_profile" \notin DOMAIN d.fields
    THEN LET r == jsonify([success |-> FALSE, error |-> "Student profile is required"],
                          400, ctx)
         IN  IF r.kind = "raised"
             THEN jsonify([success |-> FALSE, error |-> "RuntimeError"], 500, ctx)
             ELSE r
    ELSE Returned("ExerciseRequest",
            ExerciseRequest(StudentProfile(d.fields["student_profile"]), d.fields))

\* ---- the model collaborator: one call returns text or raises ----
ModelFails    == [ok |-> FALSE, text |-> <<>>, error |-> "ModelInvocationError"]
ModelReturns(t) == [ok |-> TRUE, text |-> t, error |-> ""]
ModelOutcomes(texts) == {ModelFails} \cup {ModelReturns(t) : t \in texts}

(***************************************************************************)
(* Inputs of one request run                                               *)
(***************************************************************************)
MaxCount == 3

OptField(k, vals) == {<<>>} \cup {k :> v : v \in vals}

sid       == <<"1","2","3">>
qEnglish  == <<"w","h","y","?">>
qHindi    == <<"k","y","u","?">>

AnalogyContexts ==
    {<<>>,
     [student_id |-> sid],
     [student_id |-> sid, cultural_context |-> sUrbanCap, region |-> sTribalBelt]}
AnalogyPayloads ==
    {NoneData} \cup
    {DictData(a @@ b @@ c) :
        a \in OptField("student_context", AnalogyContexts),
        b \in OptField("question", {qEnglish, qHindi}),
        c \in OptField("preferred_language", {sEnglishLow, sHindi, sTamil})}

ExerciseProfiles ==
    {<<>>, [student_id |-> sid], [student_id |-> sid, learning_style |-> "auditory"]}
ExerciseTypeLists == {<<>>, <<"short_answer", "multiple_choice">>}
ExercisePayloads ==
    {NoneData, ObjectData} \cup
    {DictData(a @@ b @@ c) :
        a \in OptField("student_profile", ExerciseProfiles),
        b \in OptField("exercise_count", 0..MaxCount),
        c \in OptField("exercise_types", ExerciseTypeLists)}

\* texts the model may return to each kind of call
DetectTexts       == {sEnglish, sEnglishPad, sENGLISH, sHindi, sHindiPad}
TranslateInTexts  == {<<" ","w","h","y","?","\n">>}
AnalogyTexts      == {<<"A","n","s">>, <<" ","A","n","s","\n">>}
TranslateOutTexts == {<<" ","U","t","t","a","r","\n">>}
\* an exercises value nested down to the recursion limit of json.loads
DeepText ==
    <<"{", kExercises>> \o [i \in 1..RecursionLimit |-> "["] \o <<"}">>
ExerciseTexts ==
    {<<>>,
     <<"Q", "\n", "Q", "1", "\n", "\n", " ", "Q", "2", "\n", "Q">>,
     <<"{", kExercises, "[", "1", ",", "2", "]", "}">>,
     <<"Q", "\n", "{", kExercises, "[", "{", kOther, "1", "}", "]", "}", "\n">>,
     <<"{", kOther, "1", "}">>,
     <<"{", kExercises, "1", "}">>,
     <<"{", "Q", "\n", "Q">>,
     <<"}", "Q", "{">>,
     <<"{", "1", "}", "\n", "{", "2", "}">>,
     <<"{", kExercises, "[", "[", "]", "]", "}">>,
     DeepText}

(***************************************************************************)
(* One request run: construction, then the orchestrator                    *)
(***************************************************************************)
IdleParse == pText = <<>> /\ pReq = <<>> /\ pShape = <<>> /\ pOut = <<>>
IdleClass == cultural_context = <<>> /\ region = <<>> /\ cultural_key = "none"
IdleRun ==
    /\ useCase = "none" /\ data = NoneData /\ appContext = FALSE
    /\ built = NoOutcome /\ calls = <<>>
    /\ detected_language = <<>> /\ translated_question = <<>>
    /\ translate_in_ok = FALSE /\ analogy_response = <<>>
    /\ final_response = <<>> /\ prompt = <<>> /\ response_text = <<>>
    /\ exercises = <<>> /\ result = NoOutcome

Init ==
    /\ useCase \in {"analogy", "exercise"}
    /\ data \in (IF useCase = "analogy" THEN AnalogyPayloads ELSE ExercisePayloads)
    /\ appContext \in BOOLEAN
    /\ pc = "construct" /\ built = NoOutcome /\ calls = <<>>
    /\ detected_language = <<>> /\ translated_question = <<>>
    /\ translate_in_ok = FALSE /\ analogy_response = <<>>
    /\ final_response = <<>> /\ prompt = <<>> /\ response_text = <<>>
    /\ exercises = <<>> /\ result = NoOutcome
    /\ IdleParse /\ IdleClass

Call(kind, out) == Append(calls, [kind |-> kind, ok |-> out.ok])

\* the entry point: analogy_request = generate_local_analogy(data)
GenerateLocalAnalogy ==
    /\ pc = "construct" /\ useCase = "analogy"
    /\ built' = generate_local_analogy(data)
    /\ pc' = "enter"
    /\ UNCHANGED <<useCase, data, appContext, calls, detected_language,
                   translated_question, translate_in_ok, analogy_response,
                   final_response, prompt, response_text, exercises, result>>
    /\ UNCHANGED <<parseVars, classVars>>

\* the entry point: exercise_request = generate_personalized_exercises(data);
\* an exception leaves the entry point before the orchestrator is called
GeneratePersonalizedExercises ==
    /\ pc = "construct" /\ useCase = "exercise"
    /\ built' = generate_personalized_exercises(data, appContext)
    /\ pc' = IF built'.kind = "raised" THEN "aborted" ELSE "enter"
    /\ UNCHANGED <<useCase, data, appContext, calls, detected_language,
                   translated_question, translate_in_ok, analogy_response,
                   final_response, prompt, response_text, exercises, result>>
    /\ UNCHANGED <<parseVars, classVars>>

\* mutant of FailureEnvelope: the identity field is left out
FailureEnvelope_NoStudentId(msg, student_id) ==
    [success |-> FALSE, error |-> msg]

\* the failure envelope of both orchestrators' handlers
FailureEnvelope(msg, student_id) ==
    [success |-> FALSE, error |-> msg, student_id |-> student_id]

\* generate_analogy, lines 60-65, and _process_question up to the detection
\* call's answer.  Reading analogy_request.question of a value that is no
\* AnalogyRequest raises AttributeError; the handler at line 91 reads
\* analogy_request.student_context and raises again, out of generate_analogy.
Detect ==
    /\ pc = "enter" /\ useCase = "analogy"
    /\ IF built.class # "AnalogyRequest"
       THEN /\ result' = Raised("AttributeError")
            /\ pc' = "done"
            /\ UNCHANGED <<calls, detected_language, translated_question>>
       ELSE \E out \in ModelOutcomes(DetectTexts) :
            /\ calls' = Call("detect", out)
            /\ result' = result
            /\ IF ~out.ok
               THEN /\ detected_language' = sEnglish
                    /\ translated_question' = built.value.question
                    /\ pc' = "create"
               ELSE /\ detected_language' = Strip(out.text)
                    /\ IF Lower(detected_language') # sEnglishLow
                       THEN /\ pc' = "translate_in"
                            /\ translated_question' = translated_question
                       ELSE /\ pc' = "create"
                            /\ translated_question' = built.value.question
    /\ UNCHANGED <<useCase, data, appContext, built, translate_in_ok,
                   analogy_response, final_response, prompt, response_text,
                   exercises>>
    /\ UNCHANGED <<parseVars, classVars>>

\* mutant of TranslateIn: a failed translation keeps the detected language
TranslateIn_KeepsDetected ==
    /\ pc = "translate_in"
    /\ \E out \in ModelOutcomes(TranslateInTexts) :
        /\ calls' = Call("translate_in", out)
        /\ translate_in_ok' = out.ok
        /\ translated_question' =
              IF out.ok THEN Strip(out.text) ELSE built.value.question
    /\ pc' = "create"
    /\ UNCHANGED <<useCase, data, appContext, built, detected_language,
                   analogy_response, final_response, prompt, response_text,
                   exercises, result>>
    /\ UNCHANGED <<parseVars, classVars>>

\* mutant of TranslateIn: after a failed translation the detection is run again
TranslateIn_Redetect ==
    /\ pc = "translate_in"
    /\ \E out \in ModelOutcomes(TranslateInTexts) :
        /\ calls' = Call("translate_in", out)
        /\ IF out.ok
           THEN /\ translated_question' = Strip(out.text)
                /\ translate_in_ok' = TRUE
                /\ pc' = "create"
           ELSE /\ translated_question' = translated_question
                /\ translate_in_ok' = FALSE
                /\ pc' = "enter"
    /\ UNCHANGED <<useCase, data, appContext, built, detected_language,
                   analogy_response, final_response, prompt, response_text,
                   exercises, result>>
    /\ UNCHANGED <<parseVars, classVars>>

\* _process_question, lines 115-132: the translation call; its failure is
\* caught by the handler shared with the detection call
TranslateIn ==
    /\ pc = "translate_in"
    /\ \E out \in ModelOutcomes(TranslateInTexts) :
        /\ calls' = Call("translate_in", out)
        /\ IF out.ok
           THEN /\ translated_question' = Strip(out.text)
                /\ translate_in_ok' = TRUE
                /\ detected_language' = detected_language
           ELSE /\ detected_language' = sEnglish
                /\ translated_question' = built.value.question
                /\ translate_in_ok' = FALSE
    /\ pc' = "create"
    /\ UNCHANGED <<useCase, data, appContext, built, analogy_response,
                   final_response, prompt, response_text, exercises, result>>
    /\ UNCHANGED <<parseVars, classVars>>

\* the fields interpolated into analogy_prompt
AnalogyPrompt(req, question) ==
    [cultural_key     |-> get_cultural_key(req.student_context.cultural_context,
                                           req.student_context.region),
     student_context  |-> req.student_context,
     question         |-> question,
     subject          |-> req.subject,
     topic            |-> req.topic,
     complexity_level |-> req.complexity_level]

\* _create_analogy; a failure of its call reaches the handler of generate_analogy
CreateAnalogy ==
    /\ pc = "create"
    /\ prompt' = AnalogyPrompt(built.value, translated_question)
    /\ \E out \in ModelOutcomes(AnalogyTexts) :
        /\ calls' = Call("generate", out)
        /\ IF out.ok
           THEN /\ analogy_response' = out.text
                /\ result' = result
                /\ pc' = "translate_out"
           ELSE /\ analogy_response' = analogy_response
                /\ result' = Returned("dict",
                      FailureEnvelope(out.error, built.value.student_context.student_id))
                /\ pc' = "done"
    /\ UNCHANGED <<useCase, data, appContext, built, detected_language,
                   translated_question, translate_in_ok, final_response,
                   response_text, exercises>>
    /\ UNCHANGED <<parseVars, classVars>>

\* mutant of NeedsTranslateOut: only the preferred language is tested
NeedsTranslateOut_PreferredOnly(preferred_language, detected) ==
    Lower(preferred_language) # sEnglishLow

\* the condition of _translate_response, line 210
NeedsTranslateOut(preferred_language, detected) ==
    Lower(preferred_language) # sEnglishLow /\ Lower(detected) # sEnglishLow

\* mutant of TranslateOutResult: a failed call loses the response
TranslateOutResult_Lost(out, response) ==
    IF out.ok THEN Strip(out.text) ELSE <<>>

\* _translate_response, lines 225-232: the stripped translation, or the
\* untranslated response when the call fails
TranslateOutResult(out, response) ==
    IF out.ok THEN Strip(out.text) ELSE response

\* _translate_response
TranslateOut ==
    /\ pc = "translate_out"
    /\ IF NeedsTranslateOut(built.value.preferred_language, detected_language)
       THEN \E out \in ModelOutcomes(TranslateOutTexts) :
            /\ calls' = Call("translate_out", out)
            /\ final_response' = TranslateOutResult(out, analogy_response)
       ELSE /\ calls' = calls
            /\ final_response' = analogy_response
    /\ pc' = "wrap"
    /\ UNCHANGED <<useCase, data, appContext, built, detected_language,
                   translated_question, translate_in_ok, analogy_response,
                   prompt, response_text, exercises, result>>
    /\ UNCHANGED <<parseVars, classVars>>

\* generate_analogy, lines 77-89
AnalogyEnvelope(req) ==
    [success             |-> TRUE,
     student_id          |-> req.student_context.student_id,
     original_question   |-> req.question,
     detected_language   |-> detected_language,
     translated_question |-> translated_question,
     subject             |-> req.subject,
     topic               |-> req.topic,
     analogy             |-> final_response,
     cultural_context    |-> req.student_context.cultural_context,
     region              |-> req.student_context.region,
     generated_at        |-> NowIso]

ReturnAnalogy ==
    /\ pc = "wrap" /\ useCase = "analogy"
    /\ result' = Returned("dict", AnalogyEnvelope(built.value))
    /\ pc' = "done"
    /\ UNCHANGED <<useCase, data, appContext, built, calls, detected_language,
                   translated_question, translate_in_ok, analogy_response,
                   final_response, prompt, response_text, exercises>>
    /\ UNCHANGED <<parseVars, classVars>>

\* the fields interpolated by _create_exercise_prompt
ExercisePrompt(req) ==
    [exercise_count   |-> req.exercise_count,
     student_profile  |-> req.student_profile,
     subject          |-> req.subject,
     topic            |-> req.topic,
     difficulty_level |-> req.difficulty_level,
     exercise_types   |-> req.exercise_types]

\* generate_exercises, line 42.  _create_exercise_prompt reads
\* req.student_profile: of a value that is no ExerciseRequest this raises
\* AttributeError, and the handler at line 64 reads
\* exercise_request.student_profile and raises again, out of generate_exercises.
CreateExercisePrompt ==
    /\ pc = "enter" /\ useCase = "exercise"
    /\ IF built.class # "ExerciseRequest"
       THEN /\ result' = Raised("AttributeError")
            /\ prompt' = prompt
            /\ pc' = "done"
       ELSE /\ prompt' = ExercisePrompt(built.value)
            /\ result' = result
            /\ pc' = "invoke"
    /\ UNCHANGED <<useCase, data, appContext, built, calls, detected_language,
                   translated_question, translate_in_ok, analogy_response,
                   final_response, response_text, exercises>>
    /\ UNCHANGED <<parseVars, classVars>>

\* mutant of InvokeExercise: a failed call is issued again
InvokeExercise_Retry ==
    /\ pc = "invoke"
    /\ \E out \in ModelOutcomes(ExerciseTexts) :
        /\ calls' = Call("generate", out)
        /\ response_text' = out.text
        /\ pc' = IF out.ok THEN "parse" ELSE "invoke"
    /\ UNCHANGED <<useCase, data, appContext, built, detected_language,
                   translated_question, translate_in_ok, analogy_response,
                   final_response, prompt, exercises, result>>
    /\ UNCHANGED <<parseVars, classVars>>

\* generate_exercises, line 45
InvokeExercise ==
    /\ pc = "invoke"
    /\ \E out \in ModelOutcomes(ExerciseTexts) :
        /\ calls' = Call("generate", out)
        /\ IF out.ok
           THEN /\ response_text' = out.text
                /\ result' = result
                /\ pc' = "parse"
           ELSE /\ response_text' = response_text
                /\ result' = Returned("dict",
                      FailureEnvelope(out.error, built.value.student_profile.student_id))
                /\ pc' = "done"
    /\ UNCHANGED <<useCase, data, appContext, built, detected_language,
                   translated_question, translate_in_ok, analogy_response,
                   final_response, prompt, exercises>>
    /\ UNCHANGED <<parseVars, classVars>>

\* generate_exercises, line 48, and the handler at line 64
ParseExercises ==
    /\ pc = "parse" /\ useCase = "exercise"
    /\ LET parsed == parse_exercises_response(response_text, built.value)
       IN  IF parsed.t = "raise"
           THEN \* not a JSONDecodeError: caught by the handler at line 64
                /\ exercises' = exercises
                /\ result' = Returned("dict",
                      FailureEnvelope(parsed.v, built.value.student_profile.student_id))
                /\ pc' = "done"
           ELSE /\ exercises' = parsed
                /\ result' = result
                /\ pc' = "wrap"
    /\ UNCHANGED <<useCase, data, appContext, built, calls, detected_language,
                   translated_question, translate_in_ok, analogy_response,
                   final_response, prompt, response_text>>
    /\ UNCHANGED <<parseVars, classVars>>

\* generate_exercises, lines 50-62
ExerciseEnvelope(req) ==
    [success      |-> TRUE,
     student_id   |-> req.student_profile.student_id,
     subject      |-> req.subject,
     topic        |-> req.topic,
     exercises    |-> exercises,
     generated_at |-> NowIso,
     personalization_factors |->
        [learning_level      |-> req.student_profile.learning_level,
         learning_style      |-> req.student_profile.learning_style,
         targeted_weaknesses |-> req.student_profile.weaknesses]]

ReturnExercises ==
    /\ pc = "wrap" /\ useCase = "exercise"
    /\ result' = Returned("dict", ExerciseEnvelope(built.value))
    /\ pc' = "done"
    /\ UNCHANGED <<useCase, data, appContext, built, calls, detected_language,
                   translated_question, translate_in_ok, analogy_response,
                   final_response, prompt, response_text, exercises>>
    /\ UNCHANGED <<parseVars, classVars>>

Next ==
    \/ GenerateLocalAnalogy
    \/ GeneratePersonalizedExercises
    \/ Detect
    \/ TranslateIn
    \/ CreateAnalogy
    \/ TranslateOut
    \/ ReturnAnalogy
    \/ CreateExercisePrompt
    \/ InvokeExercise
    \/ ParseExercises
    \/ ReturnExercises

Spec == Init /\ [][Next]_vars

(***************************************************************************)
(* The exercise parser on drawn inputs                                     *)
(***************************************************************************)
MaxItems == 2
MaxLines == 5
MaxRaw   == 3

SeqsUpTo(S, n) == UNION {[1..k -> S] : k \in 0..n}

RECURSIVE Join(_, _)
Join(parts, sep) ==
    IF parts = <<>> THEN <<>>
    ELSE IF Len(parts) = 1 THEN parts[1]
    ELSE parts[1] \o sep \o Join(Tail(parts), sep)

\* JSON literals of exercise entries: the tokens, and the value they denote
ItemForms ==
    {[tokens |-> <<"1">>,                       val |-> JScalar("1")],
     [tokens |-> <<"{", kOther, " ", "2", "}">>, val |-> JObject("other" :> JScalar("2"))],
     [tokens |-> <<"{", "}">>,                  val |-> JObject(<<>>)],
     [tokens |-> <<"[", "2", "]">>,             val |-> JList(<<JScalar("2")>>)]}

\* brace-free prose around the object
Prose == {<<>>, <<"Q", "\n">>, <<"\n", "Q", " ">>}

LineForms == {<<"Q">>, <<" ", "Q", "1", " ">>, <<" ">>}

RawAlphabet == {"{", "}", "[", "]", kExercises, "1", ",", "\n"}

JsonShapes ==
    {[form |-> "json", pre |-> a, post |-> b, other |-> o, has |-> h, items |-> it] :
        a \in Prose, b \in Prose, o \in BOOLEAN, h \in BOOLEAN,
        it \in SeqsUpTo(ItemForms, MaxItems)}
LineShapes == {[form |-> "lines", lines |-> ls] : ls \in SeqsUpTo(LineForms, MaxLines)}
RawShapes  == {[form |-> "raw", text |-> t] : t \in SeqsUpTo(RawAlphabet, MaxRaw)}

\* the text of a drawn shape
TextOf(sh) ==
    IF sh.form = "raw" THEN sh.text
    ELSE IF sh.form = "lines" THEN Join(sh.lines, <<"\n">>)
    ELSE LET list    == <<kExercises, "[">>
                        \o Join([i \in 1..Len(sh.items) |-> sh.items[i].tokens], <<",", " ">>)
                        \o <<"]">>
             otherM  == <<kOther, "1">>
             members == IF sh.other /\ sh.has THEN otherM \o <<",", "\n">> \o list
                        ELSE IF sh.other THEN otherM
                        ELSE IF sh.has THEN list
                        ELSE <<>>
         IN  sh.pre \o <<"{">> \o members \o <<"}">> \o sh.post

ParseRequests ==
    {ExerciseRequest(StudentProfile(<<>>), c @@ ty) :
        c  \in {"exercise_count" :> n : n \in (-1)..MaxCount},
        ty \in OptField("exercise_types", ExerciseTypeLists)}

InitParse ==
    /\ IdleRun /\ IdleClass
    /\ pc = "parse"
    /\ pShape \in (JsonShapes \cup LineShapes \cup RawShapes)
    /\ (pShape.form = "json" => (pShape.has \/ pShape.items = <<>>))
    /\ pText = TextOf(pShape)
    /\ pReq \in ParseRequests
    /\ pOut = <<>>

ParseDrawn ==
    /\ pc = "parse" /\ useCase = "none"
    /\ pOut' = parse_exercises_response(pText, pReq)
    /\ pc' = "parsed"
    /\ UNCHANGED <<useCase, data, appContext, built, calls, detected_language,
                   translated_question, translate_in_ok, analogy_response,
                   final_response, prompt, response_text, exercises, result>>
    /\ UNCHANGED <<pText, pReq, pShape, classVars>>

NextParse == ParseDrawn

SpecParse == InitParse /\ [][NextParse]_vars

(***************************************************************************)
(* The cultural classifier on drawn inputs                                 *)
(***************************************************************************)
InitClassify ==
    /\ IdleRun /\ IdleParse
    /\ pc = "classify"
    /\ cultural_context \in CulturalInputs
    /\ region \in RegionInputs
    /\ cultural_key = "none"

Classify ==
    /\ pc = "classify"
    /\ cultural_key' = get_cultural_key(cultural_context, region)
    /\ pc' = "classified"
    /\ UNCHANGED <<useCase, data, appContext, built, calls, detected_language,
                   translated_question, translate_in_ok, analogy_response,
                   final_response, prompt, response_text, exercises, result>>
    /\ UNCHANGED <<parseVars, cultural_context, region>>

NextClassify == Classify

SpecClassify == InitClassify /\ [][NextClassify]_vars

(***************************************************************************)
(* Properties                                                              *)
(***************************************************************************)
Kinds(log) == {log[i].kind : i \in 1..Len(log)}
Invoked(kind) == kind \in Kinds(calls)
Failed(kind) == \E i \in 1..Len(calls) : calls[i].kind = kind /\ ~calls[i].ok
Succeeded(kind) == \E i \in 1..Len(calls) : calls[i].kind = kind /\ calls[i].ok

\* s is "English" in any mix of upper and lower case
IsEnglishCI(s) ==
    /\ Len(s) = Len(sEnglishLow)
    /\ \A i \in 1..Len(s) : s[i] \in {sEnglishLow[i], sENGLISH[i]}

\* the payload lacks a required top-level key, or is empty or None
MissingRequired ==
    /\ data.kind \in {"none", "dict"}
    /\ \/ Falsy(data)
       \/ useCase = "analogy" /\ "student_context" \notin DOMAIN data.fields
       \/ useCase = "analogy" /\ "question" \notin DOMAIN data.fields
       \/ useCase = "exercise" /\ "student_profile" \notin DOMAIN data.fields

IsEnvelope(o) ==
    o.kind = "returned" /\ o.class \in {"dict", "tuple"} /\ "success" \in DOMAIN o.value
IsFailureEnvelope(o) ==
    IsEnvelope(o) /\ ~o.value.success /\ "error" \in DOMAIN o.value
IsSuccessEnvelope(o) == IsEnvelope(o) /\ o.value.success

\* C1: a payload that lacks student_context / student_profile or question, or is
\* empty, makes the request-handling path return a failure envelope (success =
\* false with an error message) and issue zero calls to the model.
C1_MissingKeysFailureEnvelope ==
    (pc # "construct" /\ MissingRequired) =>
        (IsFailureEnvelope(built) /\ calls = <<>>)

\* the classification the specification describes: both strings are searched
HasMarker(s, markers) == \E m \in markers : Contains(Lower(s), m)
ExpectedKeyBoth(cc, rg) ==
    IF HasMarker(cc, {mTribal, mAdivasi}) \/ HasMarker(rg, {mTribal, mAdivasi})
    THEN "tribal_areas"
    ELSE IF HasMarker(cc, {mUrban, mCity}) \/ HasMarker(rg, {mUrban, mCity})
    THEN "urban_india"
    ELSE "rural_india"

\* C2: the classification is priority-ordered over both the cultural-context tag
\* and the region string: tribal/adivasi in either gives tribal_areas, else
\* urban/city in either gives urban_india, else rural_india.
C2_ClassifiesTagAndRegion ==
    pc = "classified" => cultural_key = ExpectedKeyBoth(cultural_context, region)

\* C3: the exercise parser returns a sequence no longer than the requested
\* exercise_count, on the JSON path as on the fallback path.
C3_AtMostRequestedCount ==
    (pc = "parsed" /\ pReq.exercise_count >= 1 /\ pOut.t = "list") =>
        Len(pOut.v) <= pReq.exercise_count

\* C4 as claimed: at most three model calls during one analogy request, and
\* exactly one during an exercise request that reaches the orchestrator.
C4_AtMostThreeCalls ==
    /\ useCase = "analogy" => Len(calls) <= 3
    /\ (useCase = "exercise" /\ pc = "done" /\ built.class = "ExerciseRequest")
          => Len(calls) = 1

\* C4 as amended: at most four model calls during one analogy request (detect,
\* translate-in, generate, translate-out, each at most once and in that order),
\* and exactly one during an exercise request that reaches the orchestrator.
C4_AtMostFourCalls ==
    /\ useCase = "analogy" =>
          /\ Len(calls) <= 4
          /\ \A i, j \in 1..Len(calls) : calls[i].kind = calls[j].kind => i = j
    /\ useCase = "exercise" => Len(calls) <= 1
    /\ (useCase = "exercise" /\ pc = "done" /\ built.class = "ExerciseRequest")
          => Len(calls) = 1

C4_Witness ==
    /\ useCase = "analogy" /\ pc = "done" /\ Len(calls) = 4
    /\ IsSuccessEnvelope(result)

\* C5: the orchestrator call of either use case ends by returning an envelope,
\* whatever the payload and the outcome of each model call; no exception
\* reaches its caller.
C5_OrchestratorAlwaysReturns ==
    pc = "done" => IsEnvelope(result)

\* the artifact and timestamp of a success envelope, and no error field
SuccessShape(e) ==
    /\ "generated_at" \in DOMAIN e
    /\ "analogy" \in DOMAIN e \/ "exercises" \in DOMAIN e
    /\ "error" \notin DOMAIN e

\* the student_id the payload carries ('' when it carries none)
PayloadStudentId ==
    LET key == IF useCase = "analogy" THEN "student_context" ELSE "student_profile"
    IN  Get(data.fields[key], "student_id", <<>>)

\* C6 as claimed: every returned envelope is tagged; a success envelope carries
\* the artifact and a timestamp and no error; every failure envelope, whatever
\* its cause, carries exactly an error message and the student_id.
C6_EveryFailureCarriesStudentId ==
    \A o \in {built, result} :
        IsEnvelope(o) =>
            IF o.value.success THEN SuccessShape(o.value)
            ELSE DOMAIN o.value = {"success", "error", "student_id"}

\* C6 as amended: a success envelope carries the artifact and a timestamp and no
\* error; a failure envelope of the orchestrator (a failed model call) carries
\* exactly an error message and the payload's student_id; the failure envelope
\* of a missing required key carries exactly an error message.
C6_TaggedEnvelopes ==
    /\ IsEnvelope(result) =>
          IF result.value.success THEN SuccessShape(result.value)
          ELSE /\ DOMAIN result.value = {"success", "error", "student_id"}
               /\ result.value.student_id = PayloadStudentId
    /\ IsEnvelope(built) =>
          /\ ~built.value.success
          /\ DOMAIN built.value = {"success", "error"}

C6_Witness ==
    /\ pc = "done" /\ IsFailureEnvelope(result)
    /\ result.value.student_id = sid

\* C7: the model is asked to translate the answer exactly when the preferred and
\* the detected language both differ from "English" (case-insensitively);
\* otherwise the envelope's answer is the generated answer unchanged.
C7_TranslateOutIffBothNonEnglish ==
    (useCase = "analogy" /\ pc \in {"wrap", "done"} /\ Succeeded("generate")) =>
        /\ Invoked("translate_out") <=>
              (~IsEnglishCI(built.value.preferred_language)
                  /\ ~IsEnglishCI(detected_language))
        /\ ~Invoked("translate_out") => final_response = analogy_response
        /\ pc = "done" => result.value.analogy = final_response

C7_Witness ==
    /\ pc = "done" /\ IsSuccessEnvelope(result)
    /\ result.value.detected_language = sEnglish
    /\ built.value.preferred_language = sHindi
    /\ result.value.analogy = analogy_response
    /\ ~Invoked("translate_out")

\* C8: a failed detection, translate-in or translate-out call is not propagated:
\* a failed detection gives detected_language "English" and the original
\* question, a failed translate-out gives the untranslated answer, and once the
\* generation call has succeeded the orchestrator returns a success envelope.
C8_LanguageFailuresAbsorbed ==
    useCase = "analogy" =>
        /\ (Failed("detect") /\ pc # "enter") =>
              /\ detected_language = sEnglish
              /\ translated_question = built.value.question
        /\ Failed("translate_in") =>
              /\ detected_language = sEnglish
              /\ translated_question = built.value.question
        /\ (Failed("translate_out") /\ pc \in {"wrap", "done"}) =>
              final_response = analogy_response
        /\ (Succeeded("generate") /\ pc = "done") =>
              /\ IsSuccessEnvelope(result)
              /\ result.value.analogy = final_response
        /\ (pc = "done" /\ ~IsSuccessEnvelope(result)) =>
              (calls = <<>> \/ Failed("generate"))

C8_Witness ==
    /\ pc = "done" /\ IsSuccessEnvelope(result)
    /\ Failed("translate_out") /\ Succeeded("translate_in")

\* C9: a text holding one well-formed JSON object whose exercises list has N
\* entries, with brace-free prose around it, parses to exactly those N entries in
\* order and unmodified; an object without an exercises field parses to the
\* empty sequence.
C9_ParserRoundTrip ==
    (pc = "parsed" /\ pShape.form = "json") =>
        IF pShape.has
        THEN pOut = JList([i \in 1..Len(pShape.items) |-> pShape.items[i].val])
        ELSE pOut = JList(<<>>)

C9_Witness ==
    /\ pc = "parsed" /\ pShape.form = "json" /\ pShape.has
    /\ Len(pShape.items) = 2 /\ pShape.items[1] # pShape.items[2]
    /\ pShape.pre # <<>> /\ pShape.post # <<>>
    /\ pReq.exercise_count >= 2
    /\ Len(pOut.v) = 2

\* the lines of a text, by position: a line starts at 1 and after each newline
LineStarts(text) ==
    {i \in 1..(Len(text) + 1) : i = 1 \/ text[i - 1] = "\n"}
LineAt(text, i) ==
    LET stops == {j \in i..(Len(text) + 1) : j = Len(text) + 1 \/ text[j] = "\n"}
        stop  == CHOOSE j \in stops : \A k \in stops : j <= k
    IN  SubSeq(text, i, stop - 1)
Trimmed(line) ==
    LET inner == {i \in 1..Len(line) : line[i] \notin Whitespace}
    IN  IF inner = {} THEN <<>>
        ELSE SubSeq(line, CHOOSE i \in inner : \A j \in inner : i <= j,
                          CHOOSE i \in inner : \A j \in inner : j <= i)
NonEmptyStarts(text) == {i \in LineStarts(text) : Trimmed(LineAt(text, i)) # <<>>}
\* the k-th non-empty trimmed line
NonEmptyLine(text, k) ==
    LET i == CHOOSE s \in NonEmptyStarts(text) :
                Cardinality({u \in NonEmptyStarts(text) : u < s}) = k - 1
    IN  Trimmed(LineAt(text, i))

Min(a, b) == IF a <= b THEN a ELSE b

\* the text has no "{"/"}" pair, or its first-"{"-to-last-"}" slice is no JSON
TakesFallback(text) ==
    \/ \A i \in 1..Len(text) : text[i] # "{"
    \/ \A i \in 1..Len(text) : text[i] # "}"
    \/ json_loads(Slice(text, Find(text, "{"), RFind(text, "}") + 1)).err
          = "JSONDecodeError"

C11_ParseFailureNeverSurfaces ==
    (useCase = "exercise" /\ pc = "done" /\ built.class = "ExerciseRequest"
        /\ Succeeded("generate")) =>
        IsSuccessEnvelope(result)

\* the last call of the log failed
LastCallFailed == calls # <<>> /\ ~calls[Len(calls)].ok

\* C12 as claimed: a run passes Built (prompt constructed), Invoked, Normalized
\* and Done in that order, so the prompt is built before the first model call
\* of the run, and a failing step goes directly to Done with a failure envelope.
C12_BuiltFirstAndFailuresEnd ==
    /\ calls # <<>> => prompt # <<>>
    /\ LastCallFailed => (pc = "done" /\ IsFailureEnvelope(result))

\* the order of the positions of a run
Rank(p) ==
    CASE p = "construct"     -> 0
      [] p = "enter"         -> 1
      [] p = "translate_in"  -> 2
      [] p = "invoke"        -> 2
      [] p = "create"        -> 3
      [] p = "parse"         -> 3
      [] p = "translate_out" -> 4
      [] p = "wrap"          -> 5
      [] p = "done"          -> 6
      [] p = "aborted"       -> 6

\* one step of a run: forward, at most one new call and never one of a kind
\* already made
ForwardStep ==
    /\ Rank(pc') > Rank(pc)
    /\ \/ calls' = calls
       \/ /\ Len(calls') = Len(calls) + 1
          /\ SubSeq(calls', 1, Len(calls)) = calls
          /\ calls'[Len(calls')].kind \notin Kinds(calls)

\* the exercise run: Built, Invoked, Normalized, Done
ExerciseOrder ==
    useCase = "exercise" =>
        /\ pc' = "invoke" => (prompt' # <<>> /\ calls' = <<>>)
        /\ calls' # calls => (pc = "invoke" /\ prompt # <<>>)
        /\ pc' = "parse" => (Succeeded("generate")' /\ exercises' = <<>>)
        /\ pc' = "wrap" => (pc = "parse" /\ exercises' # <<>>)
        /\ LastCallFailed' => (pc' = "done" /\ IsFailureEnvelope(result'))

\* the analogy run: the language calls come before the generation prompt is
\* built and their failure does not end the run; a failed generation call does
AnalogyOrder ==
    useCase = "analogy" =>
        /\ prompt' # prompt =>
              (pc = "create" /\ Invoked("detect") /\ Invoked("generate")')
        /\ (calls' # calls /\ calls'[Len(calls')].kind # "generate") =>
              (pc' # "done" /\ result' = result)
        /\ (calls' # calls /\ calls'[Len(calls')].kind = "generate" /\ LastCallFailed') =>
              (pc' = "done" /\ IsFailureEnvelope(result'))

\* C12 as amended: each orchestrator run is forward-only with no retries: it
\* never re-enters an earlier position and never re-issues a model call, failed
\* or not.  The exercise run passes Built, Invoked, Normalized and Done in that
\* order, its prompt built before its only call, and its failed call goes
\* directly to Done with a failure envelope.  The analogy run calls the model
\* for detection (and translate-in) before its generation prompt is built; a
\* failed detection, translate-in or translate-out call does not end the run,
\* and a failed generation call goes directly to Done with a failure envelope.
C12_ForwardOnlyNoRetry ==
    [][ForwardStep /\ ExerciseOrder /\ AnalogyOrder]_vars

C12_Witness ==
    /\ useCase = "analogy" /\ pc = "done"
    /\ Failed("translate_in") /\ Failed("generate")
    /\ Len(calls) = 3 /\ prompt # <<>>
    /\ IsFailureEnvelope(result)

\* C13: when detection succeeds with a non-English language and the
\* translate-in call fails, _process_question gives ("English", the original
\* question): the generation prompt holds the untranslated question, translate-out
\* is never invoked, and the success envelope reports detected_language
\* "English"; so a success envelope whose detected_language is not "English"
\* (case-insensitively) implies that the translate-in call succeeded.
C13_SharedHandlerResetsLanguage ==
    useCase = "analogy" =>
        /\ Failed("translate_in") =>
              /\ Succeeded("detect")
              /\ detected_language = sEnglish
              /\ translated_question = built.value.question
              /\ ~Invoked("translate_out")
              /\ prompt # <<>> => prompt.question = built.value.question
              /\ IsSuccessEnvelope(result) =>
                    /\ result.value.detected_language = sEnglish
                    /\ result.value.translated_question = result.value.original_question
                    /\ result.value.analogy = analogy_response
        /\ (IsSuccessEnvelope(result) /\ ~IsEnglishCI(result.value.detected_language)) =>
              (Succeeded("translate_in") /\ translate_in_ok)

C13_Witness ==
    /\ useCase = "analogy" /\ pc = "done" /\ IsSuccessEnvelope(result)
    /\ Failed("translate_in")
    /\ built.value.preferred_language = sHindi
    /\ result.value.detected_language = sEnglish
    /\ prompt.question = qHindi
    /\ ~Invoked("translate_out")

=============================================================================
